---- MODULE Spec2Model ----
(***************************************************************************)
(* The "dir" storage driver of lxd/storage/drivers/driver_dir.go: pool     *)
(* creation checks, bind mount / unmount of the pool source on the pool's  *)
(* mount path, and deletion.  Paths are sequences of one-character strings *)
(* so that filepath.Clean and strings.HasPrefix are computed as the Go     *)
(* library computes them.  The host (directories, mount table, outcome of  *)
(* each system call) is part of the state.                                 *)
(***************************************************************************)
EXTENDS Integers, Sequences, FiniteSets, TLC

VARIABLES
    configured,  \* the source each pool was given when it was defined
    config,      \* d.config["source"] of each pool's driver
    phase,       \* where each pool is in its lifecycle
    dirState,    \* the directories of the host
    mounts,      \* the mount table: the directories stacked on each mount path
    pc,          \* the call that is running forceUnmount for each pool, if any
    attempts,    \* the unmounts issued so far by that forceUnmount
    unmounted,   \* forceUnmount's flag: an unmount succeeded
    result,      \* the latest call on each pool: its return values and the
                 \* system calls it issued
    reply,       \* the latest Info, Validate or Update call and what it returned
    usbHandlers, \* device_utils_usb.go: the registry, key -> handler
    usbMutex,    \* the thread that holds usbMutex, if any
    thread,      \* the USB call each thread is in, and how far it got
    pass,        \* the running USBRunHandlers pass: what it has visited and called
    registered   \* per triple, the handler of its latest registration that no
                 \* unregistration followed

usbVars == <<usbHandlers, usbMutex, thread, pass, registered>>

vars == <<configured, config, phase, dirState, mounts, pc, attempts, unmounted, result,
          reply, usbVars>>

(***************************************************************************)
(* Path strings                                                            *)
(***************************************************************************)
Sep == <<"/">>

Dot == <<".">>

DotDot == <<".", ".">>

\* d.config["source"] == ""
Unset == <<>>

\* shared.VarPath(): the LXD directory (taken from the environment, LXD_DIR)
VarDir == <<"/", "l", "x", "d">>

StoragePoolsDir == <<"s", "t", "o", "r", "a", "g", "e", "-", "p", "o", "o", "l", "s">>

DataName == <<"d", "a", "t", "a">>

OtherName == <<"o", "t", "h", "e", "r">>

Pools == {DataName, OtherName}

OtherPool(p) == IF p = DataName THEN OtherName ELSE DataName

\* strings.HasPrefix(s, prefix)
HasPrefix(s, prefix) ==
    /\ Len(s) >= Len(prefix)
    /\ SubSeq(s, 1, Len(prefix)) = prefix

\* the elements of path between separators, starting at position i
RECURSIVE SplitFrom(_, _, _)
SplitFrom(path, i, cur) ==
    IF i > Len(path) THEN <<cur>>
    ELSE IF path[i] = "/" THEN <<cur>> \o SplitFrom(path, i + 1, <<>>)
    ELSE SplitFrom(path, i + 1, Append(cur, path[i]))

\* filepath.Clean's element rules: drop empty and "." elements, resolve ".."
\* against the preceding element, drop ".." at the root
RECURSIVE CleanElems(_, _, _)
CleanElems(elems, out, rooted) ==
    IF elems = <<>> THEN out
    ELSE LET h == Head(elems)
             t == Tail(elems)
         IN  IF h = <<>> \/ h = Dot THEN CleanElems(t, out, rooted)
             ELSE IF h = DotDot
                  THEN IF out # <<>> /\ out[Len(out)] # DotDot
                       THEN CleanElems(t, SubSeq(out, 1, Len(out) - 1), rooted)
                       ELSE IF rooted THEN CleanElems(t, out, rooted)
                       ELSE CleanElems(t, Append(out, h), rooted)
                  ELSE CleanElems(t, Append(out, h), rooted)

RECURSIVE JoinElems(_)
JoinElems(elems) ==
    IF elems = <<>> THEN <<>>
    ELSE IF Len(elems) = 1 THEN elems[1]
    ELSE elems[1] \o Sep \o JoinElems(Tail(elems))

\* filepath.Clean(path)
CleanPath(path) ==
    IF path = <<>> THEN Dot
    ELSE LET rooted == path[1] = "/"
             joined == JoinElems(CleanElems(SplitFrom(path, 1, <<>>), <<>>, rooted))
         IN  IF rooted THEN Sep \o joined
             ELSE IF joined = <<>> THEN Dot ELSE joined

\* shared.VarPath("storage-pools", poolName), a filepath.Join, for each pool
PoolMountPaths ==
    [name \in Pools |-> CleanPath(VarDir \o Sep \o StoragePoolsDir \o Sep \o name)]

\* GetPoolMountPath(poolName)
GetPoolMountPath(name) == PoolMountPaths[name]

MntData == <<"/", "m", "n", "t", "/", "d", "a", "t", "a">>

\* a sibling of the LXD directory whose name starts with the same characters
LxdData == VarDir \o <<"-", "d", "a", "t", "a">>

\* the source values a pool is configured with
Sources(p) ==
    { Unset,
      MntData,
      GetPoolMountPath(p),
      GetPoolMountPath(p) \o Sep,
      GetPoolMountPath(OtherPool(p)),
      LxdData,
      VarDir }

\* filepath.Clean of the path strings that occur, computed once
Cleaned == [path \in UNION {Sources(p) : p \in Pools} |-> CleanPath(path)]

Clean(path) == IF path \in DOMAIN Cleaned THEN Cleaned[path] ELSE CleanPath(path)

\* the directories of the host the pools can refer to
Dirs == {MntData, LxdData, VarDir} \cup {GetPoolMountPath(p) : p \in Pools}

MountPaths == {GetPoolMountPath(p) : p \in Pools}

(***************************************************************************)
(* Bounds                                                                  *)
(***************************************************************************)
\* most mounts stacked on one path by anything outside the driver
MaxStack == 2

(***************************************************************************)
(* Errors: fmt.Errorf("<pre>%s<post>", path)                               *)
(***************************************************************************)
Errorf(pre, path, post) == [pre |-> pre, path |-> path, post |-> post]

NoError == Errorf("", <<>>, "")

ErrNotExist(source) == Errorf("Source path '", source, "' doesn't exist")

ErrWithin(source) == Errorf("Source path '", source, "' is within the LXD directory")

ErrNotEmpty(source) == Errorf("Source path '", source, "' isn't empty")

\* the error of a failed directory listing in shared.PathIsEmpty
ErrReadDir(source) == Errorf("open ", source, ": input/output error")

\* the annotated error of a failed mount
ErrMount(source, path) == Errorf("Failed to mount '", source, "' on the pool mount path")

\* the error of an unmount loop that gave up
ErrStillMounted(path) == Errorf("Failed to unmount '", path, "': still mounted")

\* the error of a failed wipeDirectory
ErrWipe(path) == Errorf("Failed to remove contents of '", path, "'")

(***************************************************************************)
(* The host: directories and the mount table                               *)
(***************************************************************************)
\* the path is a mount point
IsMountPoint(path) == path \in MountPaths /\ mounts[path] # <<>>

\* the directory a path string names: the kernel normalises the string and
\* follows the topmost mount on it
Lookup(path) ==
    LET c == Clean(path)
    IN  IF IsMountPoint(c) THEN mounts[c][Len(mounts[c])] ELSE c

DirStateOf(d) == IF d \in Dirs THEN dirState[d] ELSE "missing"

\* shared.PathExists(path)
PathExists(path) == path # <<>> /\ DirStateOf(Lookup(path)) # "missing"

\* shared.PathIsEmpty(path) fails: the directory cannot be listed
PathIsEmptyFails(path) == DirStateOf(Lookup(path)) = "unreadable"

\* the value of shared.PathIsEmpty(path) when the listing succeeds
PathIsEmpty(path) == DirStateOf(Lookup(path)) = "empty"

\* sameMount(srcPath, dstPath): both paths are the same directory of the same
\* filesystem
sameMount(srcPath, dstPath) ==
    /\ PathExists(srcPath)
    /\ PathExists(dstPath)
    /\ Lookup(srcPath) = Lookup(dstPath)

Result(op, done, ret, err, os) ==
    [op |-> op, done |-> done, ret |-> ret, err |-> err, os |-> os]

NoResult == Result("none", TRUE, FALSE, NoError, {})

(***************************************************************************)
(* Info, Validate and Update: the values they are called with and return   *)
(***************************************************************************)
\* the map[string]string values Validate and Update are called with, each a
\* set of <<key, value>> pairs
ProposedConfigs ==
    {{}, {<<"source", MntData>>}, {<<"source", VarDir>>, <<"rsync.bwlimit", <<"1">>>>}}

VolumeTypes == {"custom", "image", "container", "virtual-machine"}

\* the Info value dir.Info() builds
DriverInfo ==
    [Name |-> "dir", Version |-> "1", OptimizedImages |-> FALSE,
     PreservesInodes |-> FALSE, Remote |-> FALSE, VolumeTypes |-> VolumeTypes,
     BlockBacking |-> FALSE, RunningQuotaResize |-> TRUE,
     RunningSnapshotFreeze |-> TRUE]

\* the zero Info value
NoInfo ==
    [Name |-> "", Version |-> "", OptimizedImages |-> FALSE,
     PreservesInodes |-> FALSE, Remote |-> FALSE, VolumeTypes |-> {},
     BlockBacking |-> FALSE, RunningQuotaResize |-> FALSE,
     RunningSnapshotFreeze |-> FALSE]

Reply(pool, op, arg, info, err) ==
    [pool |-> pool, op |-> op, arg |-> arg, info |-> info, err |-> err]

NoReply == Reply(<<>>, "none", {}, NoInfo, NoError)

(***************************************************************************)
(* lxd/device/device_utils_usb.go: the handler registry                    *)
(***************************************************************************)
\* the threads of the daemon that call into the registry
Threads == {"t1", "t2"}

\* the byte 0 that delimits the parts of a key
NUL == <<"\\0">>

\* instances (project, name) and device names; written one after the other
\* without a delimiter, <<"p", "c1", "u">> and <<"pc", "1", "u">> read the same
Triples ==
    {<<<<"p">>, <<"c", "1">>, <<"u">>>>,
     <<<<"p", "c">>, <<"1">>, <<"u">>>>}

\* fmt.Sprintf("%s\000%s\000%s", project, name, deviceName)
SprintfNoDelimiter(project, name, deviceName) == project \o name \o deviceName

Sprintf(project, name, deviceName) == project \o NUL \o name \o NUL \o deviceName

Key(triple) == Sprintf(triple[1], triple[2], triple[3])

\* strings.SplitN(s, sep, n) for a one-byte sep: at most n parts, the last one
\* the unsplit rest
RECURSIVE SplitN(_, _, _)
SplitN(s, sep, n) ==
    LET at == {i \in 1..Len(s) : <<s[i]>> = sep}
    IN  IF n <= 1 \/ at = {}
        THEN <<s>>
        ELSE LET i == CHOOSE j \in at : \A k \in at : j <= k
             IN  <<SubSeq(s, 1, i - 1)>> \o SplitN(SubSeq(s, i + 1, Len(s)), sep, n - 1)

\* the handlers: nil, and hooks that fail, that return no run configuration,
\* that return one, and that register a handler themselves
HookNil == "nil"

Hooks == {"err", "none", "conf", "register"}

\* a thread outside the registry's functions
Idle == [pc |-> "idle", op |-> "none", triple |-> <<>>, handler |-> HookNil, inHook |-> FALSE]

\* no pass is running
NoPass == [running |-> FALSE, owner |-> "none", begun |-> <<>>, visited |-> {},
           invoked |-> <<>>, loaded |-> {}, events |-> {}]

USBInit ==
    /\ usbHandlers = <<>>
    /\ usbMutex = "unlocked"
    /\ thread = [t \in Threads |-> Idle]
    /\ pass = NoPass
    /\ registered = [tr \in Triples |-> HookNil]

(***************************************************************************)
(* The state after construction                                            *)
(***************************************************************************)
Init ==
    /\ config \in {c \in [Pools -> UNION {Sources(p) : p \in Pools}] :
                      \A p \in Pools : c[p] \in Sources(p)}
    /\ phase = [p \in Pools |-> "uncreated"]
    /\ configured = config
    /\ dirState \in {ds \in [Dirs -> {"missing", "empty", "full", "unreadable"}] :
                        /\ ds[VarDir] = "full"
                        /\ \A d \in Dirs \ {MntData} : ds[d] # "unreadable"}
    /\ mounts = [m \in MountPaths |-> <<>>]
    /\ pc = [p \in Pools |-> "idle"]
    /\ attempts = [p \in Pools |-> 0]
    /\ unmounted = [p \in Pools |-> FALSE]
    /\ result = [p \in Pools |-> NoResult]
    /\ reply = NoReply
    /\ USBInit

(***************************************************************************)
(* dir.Create                                                              *)
(***************************************************************************)
\* Create checking emptiness before containment
CreateErrorEmptinessFirst(name, source) ==
    IF ~PathExists(source) THEN ErrNotExist(source)
    ELSE IF PathIsEmptyFails(source) THEN ErrReadDir(source)
    ELSE IF ~PathIsEmpty(source) THEN ErrNotEmpty(source)
    ELSE IF /\ HasPrefix(Clean(source), VarDir)
            /\ Clean(source) # GetPoolMountPath(name)
         THEN ErrWithin(source)
    ELSE NoError

\* Create without the containment check
CreateErrorNoContainment(name, source) ==
    IF ~PathExists(source) THEN ErrNotExist(source)
    ELSE IF PathIsEmptyFails(source) THEN ErrReadDir(source)
    ELSE IF ~PathIsEmpty(source) THEN ErrNotEmpty(source)
    ELSE NoError

\* the checks of Create on the source (after the default is applied), in the
\* order of the code
CreateError(name, source) ==
    IF ~PathExists(source) THEN ErrNotExist(source)
    ELSE IF /\ HasPrefix(Clean(source), VarDir)
            /\ Clean(source) # GetPoolMountPath(name)
         THEN ErrWithin(source)
    ELSE IF PathIsEmptyFails(source) THEN ErrReadDir(source)
    ELSE IF ~PathIsEmpty(source) THEN ErrNotEmpty(source)
    ELSE NoError

\* Create without the default for a missing source
DefaultSourceNone(p) == config[p]

\* the source Create works with: the pool mount path when none is configured
DefaultSource(p) == IF config[p] = Unset THEN GetPoolMountPath(p) ELSE config[p]

Create(p) ==
    /\ UNCHANGED <<reply, usbVars>>
    /\ phase[p] = "uncreated"
    /\ pc[p] = "idle"
    /\ LET source == DefaultSource(p)
           err == CreateError(p, source)
       IN  /\ config' = [config EXCEPT ![p] = source]
           /\ phase' = [phase EXCEPT ![p] = IF err = NoError THEN "created" ELSE "uncreated"]
           /\ result' = [result EXCEPT ![p] =
                             Result("Create", TRUE, FALSE, err,
                                    IF err \in {ErrNotExist(source), ErrWithin(source)}
                                    THEN {"stat"} ELSE {"stat", "readdir"})]
    /\ UNCHANGED <<configured, dirState, mounts, pc, attempts, unmounted>>

(***************************************************************************)
(* dir.Mount                                                               *)
(***************************************************************************)
\* the outcomes TryMount can have: the mount system call can fail, and fails
\* when the source is missing
TryMountOutcomes(source, path) == IF PathExists(source) THEN {TRUE, FALSE} ELSE {FALSE}

\* the host after a successful bind mount of source on path: the target
\* directory is created if absent, the source's directory is stacked on path
BindMount(source, path) ==
    /\ mounts' = [mounts EXCEPT ![path] = Append(@, Lookup(source))]
    /\ dirState' = IF DirStateOf(path) = "missing"
                   THEN [dirState EXCEPT ![path] = "empty"]
                   ELSE dirState

\* Mount without the "already mounted" check: it always sets up the bind mount
MountNoIdentityCheck(p) ==
    /\ UNCHANGED <<reply, usbVars>>
    /\ phase[p] = "created"
    /\ pc[p] = "idle"
    /\ LET path == GetPoolMountPath(p)
           source == config[p]
       IN  IF source = path
           THEN /\ result' = [result EXCEPT ![p] = Result("Mount", TRUE, FALSE, NoError, {})]
                /\ UNCHANGED <<mounts, dirState>>
           ELSE \E ok \in TryMountOutcomes(source, path) :
                   IF ok
                   THEN /\ BindMount(source, path)
                        /\ result' = [result EXCEPT ![p] =
                                         Result("Mount", TRUE, TRUE, NoError, {"mount"})]
                   ELSE /\ result' = [result EXCEPT ![p] =
                                         Result("Mount", TRUE, FALSE, ErrMount(source, path),
                                                {"mount"})]
                        /\ UNCHANGED <<mounts, dirState>>
    /\ UNCHANGED <<configured, config, phase, pc, attempts, unmounted>>

\* Mount setting up the bind mount on the mount path of the other pool
MountOnOtherPool(p) ==
    /\ UNCHANGED <<reply, usbVars>>
    /\ phase[p] = "created"
    /\ pc[p] = "idle"
    /\ LET path == GetPoolMountPath(OtherPool(p))
           source == config[p]
       IN  IF source = GetPoolMountPath(p)
           THEN /\ result' = [result EXCEPT ![p] = Result("Mount", TRUE, FALSE, NoError, {})]
                /\ UNCHANGED <<mounts, dirState>>
           ELSE IF sameMount(source, path)
           THEN /\ result' = [result EXCEPT ![p] =
                                 Result("Mount", TRUE, FALSE, NoError, {"sameMount"})]
                /\ UNCHANGED <<mounts, dirState>>
           ELSE \E ok \in TryMountOutcomes(source, path) :
                   IF ok
                   THEN /\ BindMount(source, path)
                        /\ result' = [result EXCEPT ![p] =
                                         Result("Mount", TRUE, TRUE, NoError, {"sameMount", "mount"})]
                   ELSE /\ result' = [result EXCEPT ![p] =
                                         Result("Mount", TRUE, FALSE, ErrMount(source, path),
                                                {"sameMount", "mount"})]
                        /\ UNCHANGED <<mounts, dirState>>
    /\ UNCHANGED <<configured, config, phase, pc, attempts, unmounted>>

\* Mount reporting a mount action when the pool was already mounted
MountReportsTrue(p) ==
    /\ UNCHANGED <<reply, usbVars>>
    /\ phase[p] = "created"
    /\ pc[p] = "idle"
    /\ LET path == GetPoolMountPath(p)
           source == config[p]
       IN  IF source = path
           THEN /\ result' = [result EXCEPT ![p] = Result("Mount", TRUE, FALSE, NoError, {})]
                /\ UNCHANGED <<mounts, dirState>>
           ELSE IF sameMount(source, path)
           THEN /\ result' = [result EXCEPT ![p] =
                                 Result("Mount", TRUE, TRUE, NoError, {"sameMount"})]
                /\ UNCHANGED <<mounts, dirState>>
           ELSE \E ok \in TryMountOutcomes(source, path) :
                   IF ok
                   THEN /\ BindMount(source, path)
                        /\ result' = [result EXCEPT ![p] =
                                         Result("Mount", TRUE, TRUE, NoError, {"sameMount", "mount"})]
                   ELSE /\ result' = [result EXCEPT ![p] =
                                         Result("Mount", TRUE, FALSE, ErrMount(source, path),
                                                {"sameMount", "mount"})]
                        /\ UNCHANGED <<mounts, dirState>>
    /\ UNCHANGED <<configured, config, phase, pc, attempts, unmounted>>

Mount(p) ==
    /\ UNCHANGED <<reply, usbVars>>
    /\ phase[p] = "created"
    /\ pc[p] = "idle"
    /\ LET path == GetPoolMountPath(p)
           source == config[p]
       IN  IF source = path
           THEN /\ result' = [result EXCEPT ![p] = Result("Mount", TRUE, FALSE, NoError, {})]
                /\ UNCHANGED <<mounts, dirState>>
           ELSE IF sameMount(source, path)
           THEN /\ result' = [result EXCEPT ![p] =
                                 Result("Mount", TRUE, FALSE, NoError, {"sameMount"})]
                /\ UNCHANGED <<mounts, dirState>>
           ELSE \E ok \in TryMountOutcomes(source, path) :
                   IF ok
                   THEN /\ BindMount(source, path)
                        /\ result' = [result EXCEPT ![p] =
                                         Result("Mount", TRUE, TRUE, NoError, {"sameMount", "mount"})]
                   ELSE /\ result' = [result EXCEPT ![p] =
                                         Result("Mount", TRUE, FALSE, ErrMount(source, path),
                                                {"sameMount", "mount"})]
                        /\ UNCHANGED <<mounts, dirState>>
    /\ UNCHANGED <<configured, config, phase, pc, attempts, unmounted>>

(***************************************************************************)
(* dir.Unmount and forceUnmount                                            *)
(***************************************************************************)
\* the number of unmount attempts forceUnmount makes before it gives up
MaxUnmountRetries == 3

\* the caller of forceUnmount dropping the error it got
ForceUnmountReturnNoError(p, ret, err) ==
    /\ result' = [result EXCEPT ![p] =
                     Result(pc[p], TRUE, IF pc[p] = "Unmount" THEN ret ELSE FALSE, NoError,
                            @.os \cup {"ismountpoint"})]
    /\ phase' = [phase EXCEPT ![p] = IF pc[p] = "Delete" THEN "deleted" ELSE @]
    /\ pc' = [pc EXCEPT ![p] = "idle"]
    /\ UNCHANGED <<configured, config, dirState, mounts, attempts, unmounted>>

\* Unmount reporting an unmount whatever forceUnmount returned
ForceUnmountReturnTrue(p, ret, err) ==
    /\ result' = [result EXCEPT ![p] =
                     Result(pc[p], TRUE, pc[p] = "Unmount", err, @.os \cup {"ismountpoint"})]
    /\ phase' = [phase EXCEPT ![p] =
                    IF pc[p] = "Delete" /\ err = NoError THEN "deleted" ELSE @]
    /\ pc' = [pc EXCEPT ![p] = "idle"]
    /\ UNCHANGED <<configured, config, dirState, mounts, attempts, unmounted>>

\* forceUnmount returned (ret, err) to the Unmount or Delete of pool p that
\* called it: Unmount returns both values, Delete returns the error and the
\* pool is deleted when there is none
ForceUnmountReturn(p, ret, err) ==
    /\ result' = [result EXCEPT ![p] =
                     Result(pc[p], TRUE, IF pc[p] = "Unmount" THEN ret ELSE FALSE, err,
                            @.os \cup {"ismountpoint"})]
    /\ phase' = [phase EXCEPT ![p] =
                    IF pc[p] = "Delete" /\ err = NoError THEN "deleted" ELSE @]
    /\ pc' = [pc EXCEPT ![p] = "idle"]
    /\ UNCHANGED <<configured, config, dirState, mounts, attempts, unmounted>>

\* one iteration of forceUnmount(path): return when the path is no mount
\* point, give up when the retries are used up, else issue one unmount, which
\* detaches the topmost mount or fails
ForceUnmountStep(p) ==
    /\ UNCHANGED <<reply, usbVars>>
    /\ pc[p] \in {"Unmount", "Delete"}
    /\ LET path == GetPoolMountPath(p)
       IN  IF ~IsMountPoint(path)
           THEN ForceUnmountReturn(p, unmounted[p], NoError)
           ELSE IF attempts[p] >= MaxUnmountRetries
           THEN ForceUnmountReturn(p, FALSE, ErrStillMounted(path))
           ELSE \E ok \in BOOLEAN :
                   /\ attempts' = [attempts EXCEPT ![p] = @ + 1]
                   /\ result' = [result EXCEPT ![p].os =
                                    @ \cup {"ismountpoint", "umount"}
                                      \cup (IF ok THEN {"umount-ok"} ELSE {})]
                   /\ IF ok
                      THEN /\ mounts' = [mounts EXCEPT ![path] = SubSeq(@, 1, Len(@) - 1)]
                           /\ unmounted' = [unmounted EXCEPT ![p] = TRUE]
                      ELSE UNCHANGED <<mounts, unmounted>>
                   /\ UNCHANGED <<configured, config, phase, dirState, pc>>

\* Unmount with the external-mount test inverted
UnmountInverted(p) ==
    /\ UNCHANGED <<reply, usbVars>>
    /\ phase[p] = "created"
    /\ pc[p] = "idle"
    /\ IF config[p] # GetPoolMountPath(p)
       THEN /\ result' = [result EXCEPT ![p] = Result("Unmount", TRUE, FALSE, NoError, {})]
            /\ UNCHANGED <<pc, attempts, unmounted>>
       ELSE /\ pc' = [pc EXCEPT ![p] = "Unmount"]
            /\ attempts' = [attempts EXCEPT ![p] = 0]
            /\ unmounted' = [unmounted EXCEPT ![p] = FALSE]
            /\ result' = [result EXCEPT ![p] = Result("Unmount", FALSE, FALSE, NoError, {})]
    /\ UNCHANGED <<configured, config, phase, dirState, mounts>>

Unmount(p) ==
    /\ UNCHANGED <<reply, usbVars>>
    /\ phase[p] = "created"
    /\ pc[p] = "idle"
    /\ IF config[p] = GetPoolMountPath(p)
       THEN /\ result' = [result EXCEPT ![p] = Result("Unmount", TRUE, FALSE, NoError, {})]
            /\ UNCHANGED <<pc, attempts, unmounted>>
       ELSE /\ pc' = [pc EXCEPT ![p] = "Unmount"]
            /\ attempts' = [attempts EXCEPT ![p] = 0]
            /\ unmounted' = [unmounted EXCEPT ![p] = FALSE]
            /\ result' = [result EXCEPT ![p] = Result("Unmount", FALSE, FALSE, NoError, {})]
    /\ UNCHANGED <<configured, config, phase, dirState, mounts>>

(***************************************************************************)
(* dir.Delete                                                              *)
(***************************************************************************)
\* the directories after wipeDirectory(path) removed every entry
Wiped(path) ==
    IF DirStateOf(Lookup(path)) = "full"
    THEN [dirState EXCEPT ![Lookup(path)] = "empty"]
    ELSE dirState

\* Delete going on to the unmount after a failed wipe
DeleteUnmountsAnyway(p) ==
    /\ UNCHANGED <<reply, usbVars>>
    /\ phase[p] = "created"
    /\ pc[p] = "idle"
    /\ LET path == GetPoolMountPath(p)
       IN  \E wiped \in BOOLEAN :
              /\ dirState' = IF wiped THEN Wiped(path) ELSE dirState
              /\ IF config[p] = path
                 THEN /\ result' = [result EXCEPT ![p] =
                                       Result("Delete", TRUE, FALSE, NoError,
                                              IF wiped THEN {"wipe"} ELSE {"wipe-failed"})]
                      /\ phase' = [phase EXCEPT ![p] = "deleted"]
                      /\ UNCHANGED <<pc, attempts, unmounted>>
                 ELSE /\ pc' = [pc EXCEPT ![p] = "Delete"]
                      /\ attempts' = [attempts EXCEPT ![p] = 0]
                      /\ unmounted' = [unmounted EXCEPT ![p] = FALSE]
                      /\ result' = [result EXCEPT ![p] =
                                       Result("Delete", FALSE, FALSE, NoError,
                                              IF wiped THEN {"wipe"} ELSE {"wipe-failed"})]
                      /\ UNCHANGED phase
    /\ UNCHANGED <<configured, config, mounts>>

Delete(p) ==
    /\ UNCHANGED <<reply, usbVars>>
    /\ phase[p] = "created"
    /\ pc[p] = "idle"
    /\ LET path == GetPoolMountPath(p)
       IN  \E wiped \in BOOLEAN :
              IF ~wiped
              THEN /\ result' = [result EXCEPT ![p] =
                                    Result("Delete", TRUE, FALSE, ErrWipe(path), {"wipe-failed"})]
                   /\ UNCHANGED <<phase, dirState, pc, attempts, unmounted>>
              ELSE /\ dirState' = Wiped(path)
                   /\ IF config[p] = path
                      THEN /\ result' = [result EXCEPT ![p] =
                                            Result("Delete", TRUE, FALSE, NoError, {"wipe"})]
                           /\ phase' = [phase EXCEPT ![p] = "deleted"]
                           /\ UNCHANGED <<pc, attempts, unmounted>>
                      ELSE /\ pc' = [pc EXCEPT ![p] = "Delete"]
                           /\ attempts' = [attempts EXCEPT ![p] = 0]
                           /\ unmounted' = [unmounted EXCEPT ![p] = FALSE]
                           /\ result' = [result EXCEPT ![p] =
                                            Result("Delete", FALSE, FALSE, NoError, {"wipe"})]
                           /\ UNCHANGED phase
    /\ UNCHANGED <<configured, config, mounts>>

(***************************************************************************)
(* The instances using a pool                                              *)
(***************************************************************************)
\* an instance writes into the pool's mount path
WriteData(p) ==
    /\ UNCHANGED <<reply, usbVars>>
    /\ phase[p] = "created"
    /\ pc[p] = "idle"
    /\ DirStateOf(Lookup(GetPoolMountPath(p))) = "empty"
    /\ dirState' = [dirState EXCEPT ![Lookup(GetPoolMountPath(p))] = "full"]
    /\ UNCHANGED <<configured, config, phase, mounts, pc, attempts, unmounted, result>>

Next ==
    \E p \in Pools :
        \/ Create(p)
        \/ Mount(p)
        \/ Unmount(p)
        \/ ForceUnmountStep(p)
        \/ Delete(p)
        \/ WriteData(p)

Spec == Init /\ [][Next]_vars

(***************************************************************************)
(* A host on which others mount on the pools' mount paths                  *)
(***************************************************************************)
\* something outside the driver mounts a directory on the pool's mount path,
\* at any time, also while an unmount of the pool is running
ExternalMount(p) ==
    /\ UNCHANGED <<reply, usbVars>>
    /\ Len(mounts[GetPoolMountPath(p)]) < MaxStack
    /\ DirStateOf(LxdData) # "missing"
    /\ mounts' = [mounts EXCEPT ![GetPoolMountPath(p)] = Append(@, LxdData)]
    /\ UNCHANGED <<configured, config, phase, dirState, pc, attempts, unmounted, result>>

\* the pools of this specification: every directory exists and is empty, one
\* pool has an outside source, none, or its mount path spelled with a trailing
\* separator, the other has none
InitEnv ==
    /\ Init
    /\ \A d \in Dirs \ {VarDir} : dirState[d] = "empty"
    /\ config[DataName] \in {MntData, Unset, GetPoolMountPath(DataName) \o Sep}
    /\ config[OtherName] = Unset

NextEnv == Next \/ \E p \in Pools : ExternalMount(p)

SpecEnv == InitEnv /\ [][NextEnv]_vars

\* a running forceUnmount keeps executing
LiveSpecEnv == SpecEnv /\ \A p \in Pools : WF_vars(ForceUnmountStep(p))

(***************************************************************************)
(* dir.Info, dir.Validate, dir.Update                                      *)
(***************************************************************************)
driverVars == <<configured, config, phase, dirState, mounts, pc, attempts, unmounted, result>>

\* return Info{...}
Info(p) ==
    /\ reply' = Reply(p, "Info", {}, DriverInfo, NoError)
    /\ UNCHANGED <<driverVars, usbVars>>

\* return nil
Validate(p, proposed) ==
    /\ reply' = Reply(p, "Validate", proposed, NoInfo, NoError)
    /\ UNCHANGED <<driverVars, usbVars>>

\* an Update that takes over a changed source
UpdateAppliesSource(p, changedConfig) ==
    /\ reply' = Reply(p, "Update", changedConfig, NoInfo, NoError)
    /\ config' = [config EXCEPT ![p] =
                     IF \E kv \in changedConfig : kv[1] = "source"
                     THEN (CHOOSE kv \in changedConfig : kv[1] = "source")[2]
                     ELSE @]
    /\ UNCHANGED <<configured, phase, dirState, mounts, pc, attempts, unmounted, result,
                   usbVars>>

\* return nil
Update(p, changedConfig) ==
    /\ reply' = Reply(p, "Update", changedConfig, NoInfo, NoError)
    /\ UNCHANGED <<driverVars, usbVars>>

\* the driver with its three pure calls, made at any time
NextCalls ==
    \/ Next
    \/ \E p \in Pools :
          \/ Info(p)
          \/ \E m \in ProposedConfigs : Validate(p, m)
          \/ \E m \in ProposedConfigs : Update(p, m)

SpecCalls == InitEnv /\ [][NextCalls]_vars

(***************************************************************************)
(* USBRegisterHandler, USBUnregisterHandler, USBRunHandlers                *)
(***************************************************************************)
\* usbHandlers[key], nil when the map has no such key
Handler(key) == IF key \in DOMAIN usbHandlers THEN usbHandlers[key] ELSE HookNil

\* the map after usbHandlers[key] = handler
MapSet(m, key, handler) ==
    [k \in DOMAIN m \cup {key} |-> IF k = key THEN handler ELSE m[k]]

\* the map after delete(usbHandlers, key)
MapDelete(m, key) == [k \in DOMAIN m \ {key} |-> m[k]]

\* the hooks the pass has called for a key so far, in order
Invoked(key) == IF key \in DOMAIN pass.invoked THEN pass.invoked[key] ELSE <<>>

\* the frame of a thread that runs the loop of USBRunHandlers
RunFrame == [pc |-> "locked", op |-> "Run", triple |-> <<>>, handler |-> HookNil, inHook |-> FALSE]

\* a thread calls USBRegisterHandler and reaches usbMutex.Lock()
CallUSBRegisterHandler(t, triple, handler) ==
    /\ thread[t].pc = "idle"
    /\ thread' = [thread EXCEPT ![t] =
                     [pc |-> "lock", op |-> "Register", triple |-> triple,
                      handler |-> handler, inHook |-> FALSE]]
    /\ UNCHANGED <<usbHandlers, usbMutex, pass, registered, driverVars, reply>>

\* a thread calls USBUnregisterHandler and reaches usbMutex.Lock()
CallUSBUnregisterHandler(t, triple) ==
    /\ thread[t].pc = "idle"
    /\ thread' = [thread EXCEPT ![t] =
                     [pc |-> "lock", op |-> "Unregister", triple |-> triple,
                      handler |-> HookNil, inHook |-> FALSE]]
    /\ UNCHANGED <<usbHandlers, usbMutex, pass, registered, driverVars, reply>>

\* a thread calls USBRunHandlers and reaches usbMutex.Lock()
CallUSBRunHandlers(t) ==
    /\ thread[t].pc = "idle"
    /\ thread' = [thread EXCEPT ![t] = [RunFrame EXCEPT !.pc = "lock"]]
    /\ UNCHANGED <<usbHandlers, usbMutex, pass, registered, driverVars, reply>>

\* a Lock that does not wait for the mutex
LockWithoutWaiting(t) ==
    /\ thread[t].pc = "lock"
    /\ usbMutex' = t
    /\ thread' = [thread EXCEPT ![t].pc = "locked"]
    /\ IF thread[t].op = "Run"
       THEN pass' = [running |-> TRUE, owner |-> t, begun |-> usbHandlers, visited |-> {},
                     invoked |-> <<>>, loaded |-> {}, events |-> {}]
       ELSE UNCHANGED pass
    /\ UNCHANGED <<usbHandlers, registered, driverVars, reply>>

\* usbMutex.Lock() returns: the mutex was free and is now held by the caller;
\* a pass that gets it starts its range over the map
Lock(t) ==
    /\ thread[t].pc = "lock"
    /\ usbMutex = "unlocked"
    /\ usbMutex' = t
    /\ thread' = [thread EXCEPT ![t].pc = "locked"]
    /\ IF thread[t].op = "Run"
       THEN pass' = [running |-> TRUE, owner |-> t, begun |-> usbHandlers, visited |-> {},
                     invoked |-> <<>>, loaded |-> {}, events |-> {}]
       ELSE UNCHANGED pass
    /\ UNCHANGED <<usbHandlers, registered, driverVars, reply>>

\* the deferred usbMutex.Unlock() and the return, to the hook that made the
\* call if one did
Unlock(t) ==
    /\ usbMutex' = "unlocked"
    /\ thread' = [thread EXCEPT ![t] = IF @.inHook THEN RunFrame ELSE Idle]

\* usbHandlers[key] = handler
USBRegisterHandler(t) ==
    /\ thread[t].pc = "locked"
    /\ thread[t].op = "Register"
    /\ LET key == Key(thread[t].triple)
       IN  usbHandlers' = MapSet(usbHandlers, key, thread[t].handler)
    /\ registered' = [registered EXCEPT ![thread[t].triple] = thread[t].handler]
    /\ Unlock(t)
    /\ UNCHANGED <<pass, driverVars, reply>>

\* delete(usbHandlers, key)
USBUnregisterHandler(t) ==
    /\ thread[t].pc = "locked"
    /\ thread[t].op = "Unregister"
    /\ LET key == Key(thread[t].triple)
       IN  usbHandlers' = MapDelete(usbHandlers, key)
    /\ registered' = [registered EXCEPT ![thread[t].triple] = HookNil]
    /\ Unlock(t)
    /\ UNCHANGED <<pass, driverVars, reply>>

\* one iteration of the range loop for an entry of the map: a nil hook is
\* deleted, any other is called with the event; a run configuration makes the
\* pass load the instance named in the key and call its DeviceEventHandler;
\* every failure is logged and the loop continues
RunHook(t, key) ==
    LET keyParts == SplitN(key, NUL, 3)
        projectName == keyParts[1]
        instanceName == keyParts[2]
        hook == usbHandlers[key]
        called == [pass EXCEPT !.visited = @ \cup {key},
                               !.invoked = MapSet(@, key, Append(Invoked(key), hook))]
    IN  CASE hook = HookNil ->
                /\ usbHandlers' = MapDelete(usbHandlers, key)
                /\ pass' = [pass EXCEPT !.visited = @ \cup {key}]
                /\ UNCHANGED <<thread, usbMutex>>
          [] hook \in {"err", "none"} ->
                /\ pass' = called
                /\ UNCHANGED <<usbHandlers, thread, usbMutex>>
          [] hook = "conf" ->
                /\ \E loadErr \in BOOLEAN, handlerErr \in BOOLEAN :
                      pass' = [called EXCEPT
                                  !.loaded = @ \cup {<<projectName, instanceName>>},
                                  !.events = IF loadErr
                                             THEN @
                                             ELSE @ \cup {[key |-> key,
                                                           project |-> projectName,
                                                           instance |-> instanceName,
                                                           err |-> handlerErr]}]
                /\ UNCHANGED <<usbHandlers, thread, usbMutex>>
          [] hook = "register" ->
                /\ pass' = called
                /\ \E triple \in Triples :
                      thread' = [thread EXCEPT ![t] =
                                    [pc |-> "lock", op |-> "Register", triple |-> triple,
                                     handler |-> "none", inHook |-> TRUE]]
                /\ UNCHANGED <<usbHandlers, usbMutex>>

\* a pass that returns when a hook fails
USBRunHandlersReturnsOnError(t) ==
    /\ thread[t].pc = "locked"
    /\ thread[t].op = "Run"
    /\ LET rest == DOMAIN usbHandlers \ pass.visited
       IN  \/ /\ rest \cap DOMAIN pass.begun = {}
              /\ pass' = NoPass
              /\ Unlock(t)
              /\ UNCHANGED usbHandlers
           \/ \E key \in rest :
                 IF usbHandlers[key] = "err"
                 THEN /\ pass' = NoPass
                      /\ Unlock(t)
                      /\ UNCHANGED usbHandlers
                 ELSE RunHook(t, key)
    /\ UNCHANGED <<registered, driverVars, reply>>

\* the next step of the range over usbHandlers, in any order of the keys: the
\* loop body for a key not produced yet, or the end of the loop, the deferred
\* Unlock and the return
USBRunHandlers(t) ==
    /\ thread[t].pc = "locked"
    /\ thread[t].op = "Run"
    /\ LET rest == DOMAIN usbHandlers \ pass.visited
       IN  \/ /\ rest \cap DOMAIN pass.begun = {}
              /\ pass' = NoPass
              /\ Unlock(t)
              /\ UNCHANGED usbHandlers
           \/ \E key \in rest : RunHook(t, key)
    /\ UNCHANGED <<registered, driverVars, reply>>

\* the registry alone: the pools stay as they are defined
InitUSB ==
    /\ InitEnv
    /\ config[DataName] = Unset

NextUSB ==
    \E t \in Threads :
        \/ \E triple \in Triples, handler \in Hooks \cup {HookNil} :
              CallUSBRegisterHandler(t, triple, handler)
        \/ \E triple \in Triples : CallUSBUnregisterHandler(t, triple)
        \/ CallUSBRunHandlers(t)
        \/ Lock(t)
        \/ USBRegisterHandler(t)
        \/ USBUnregisterHandler(t)
        \/ USBRunHandlers(t)

SpecUSB == InitUSB /\ [][NextUSB]_vars

\* a thread inside one of the three functions keeps running, and a thread
\* that waits for usbMutex gets it if it is free again and again
LiveSpecUSB ==
    /\ SpecUSB
    /\ \A t \in Threads :
          /\ SF_vars(Lock(t))
          /\ WF_vars(USBRegisterHandler(t))
          /\ WF_vars(USBUnregisterHandler(t))
          /\ WF_vars(USBRunHandlers(t))

(***************************************************************************)
(* Properties                                                              *)
(***************************************************************************)
\* the call on p that the step completed returned (ret, err)
Returned(p, ret, err) ==
    /\ result'[p].done
    /\ result'[p].ret = ret
    /\ result'[p].err = err

\* C1 as stated: a Mount of a pool whose source differs from its mount path,
\* with the mount path not mounted, returns (true, nil) and leaves exactly the
\* bind mount of source on the mount path; a Mount right after a Mount that
\* returned (true, nil) returns (false, nil) and leaves the mount table as is.
C1_AsStated ==
    [][\A p \in Pools :
          LET path == GetPoolMountPath(p)
          IN  /\ (Mount(p) /\ config[p] # path /\ ~IsMountPoint(path))
                    => /\ Returned(p, TRUE, NoError)
                       /\ mounts' = [mounts EXCEPT ![path] = <<Lookup(config[p])>>]
              /\ (Mount(p) /\ result[p] = Result("Mount", TRUE, TRUE, NoError, {"sameMount", "mount"}))
                    => /\ Returned(p, FALSE, NoError)
                       /\ mounts' = mounts]_vars

\* C1 amended: the first Mount returns (true, nil) and establishes the bind
\* mount when the source is a directory other than the mount path itself and
\* the mount system call succeeds; when the system call fails it returns
\* (false, error) and the mount table is unchanged; when the source is only
\* another spelling of the mount path it returns (false, nil) and nothing is
\* mounted.  A Mount right after a Mount that returned (true, nil) returns
\* (false, nil) and leaves the mount table unchanged.
C1_IdempotentMount ==
    [][\A p \in Pools :
          LET path == GetPoolMountPath(p)
          IN  /\ (Mount(p) /\ config[p] # path /\ ~IsMountPoint(path))
                    => \/ /\ Clean(config[p]) # path
                          /\ Returned(p, TRUE, NoError)
                          /\ "mount" \in result'[p].os
                          /\ mounts' = [mounts EXCEPT ![path] = <<Lookup(config[p])>>]
                       \/ /\ Clean(config[p]) # path
                          /\ Returned(p, FALSE, ErrMount(config[p], path))
                          /\ "mount" \in result'[p].os
                          /\ mounts' = mounts
                       \/ /\ Clean(config[p]) = path
                          /\ Returned(p, FALSE, NoError)
                          /\ "mount" \notin result'[p].os
                          /\ mounts' = mounts
              /\ (Mount(p) /\ result[p] = Result("Mount", TRUE, TRUE, NoError, {"sameMount", "mount"}))
                    => /\ Returned(p, FALSE, NoError)
                       /\ mounts' = mounts]_vars

\* a Mount found the mount path already bind-mounted from the source
C1_Witness ==
    \E p \in Pools :
        /\ config[p] # GetPoolMountPath(p)
        /\ mounts[GetPoolMountPath(p)] = <<Clean(config[p])>>
        /\ result[p] = Result("Mount", TRUE, FALSE, NoError, {"sameMount"})

\* C2: whenever Mount returned (true, nil) the pool's mount path is a mount
\* point, and when the Unmount that follows has returned without error the
\* mount path is not a mount point.
C2_RoundTrip ==
    \A p \in Pools :
        LET path == GetPoolMountPath(p)
        IN  /\ (result[p].op = "Mount" /\ result[p].ret /\ result[p].err = NoError)
                  => IsMountPoint(path)
            /\ (result[p].op = "Unmount" /\ result[p].done /\ result[p].err = NoError)
                  => ~IsMountPoint(path)

\* an Unmount detached the bind mount of a pool
C2_Witness ==
    \E p \in Pools :
        /\ result[p].op = "Unmount"
        /\ result[p].done
        /\ result[p].ret
        /\ result[p].err = NoError
        /\ "umount" \in result[p].os
        /\ ~IsMountPoint(GetPoolMountPath(p))

\* C3: when the source equals the pool's mount path, Mount and Unmount return
\* (false, nil) at once, issue no system call and leave the mount table
\* unchanged.
C3_SelfManagedNoOp ==
    [][\A p \in Pools :
          (config[p] = GetPoolMountPath(p) /\ (Mount(p) \/ Unmount(p)))
             => /\ Returned(p, FALSE, NoError)
                /\ result'[p].os = {}
                /\ pc'[p] = "idle"
                /\ mounts' = mounts]_vars

\* an Unmount of a self-managed pool has returned
C3_Witness ==
    \E p \in Pools :
        /\ config[p] = GetPoolMountPath(p)
        /\ phase[p] = "created"
        /\ result[p] = Result("Unmount", TRUE, FALSE, NoError, {})
\* path c is the directory root or lies below it
IsUnder(c, root) == c = root \/ HasPrefix(c, root \o Sep)

\* C4: Create checks existence, then containment, then emptiness, and the
\* first failing check gives the error: a missing source gives the not-found
\* error; an existing source that violates containment gives the containment
\* error, also when it is not empty; the not-empty error is given only for a
\* source that exists and passes containment.
C4_CheckOrder ==
    [][\A p \in Pools :
          Create(p) =>
             LET source == DefaultSource(p)
                 within == /\ IsUnder(Clean(source), VarDir)
                           /\ Clean(source) # GetPoolMountPath(p)
             IN  /\ ~PathExists(source) => result'[p].err = ErrNotExist(source)
                 /\ (PathExists(source) /\ within) => result'[p].err = ErrWithin(source)
                 /\ result'[p].err = ErrNotEmpty(source) => (PathExists(source) /\ ~within)]_vars

\* Create refused a source that violates containment and is not empty
C4_Witness ==
    \E p \in Pools :
        /\ result[p].op = "Create"
        /\ result[p].err = ErrWithin(config[p])
        /\ DirStateOf(Lookup(config[p])) = "full"

\* C5 as stated: Create of a pool whose source is the existing mount path of
\* another pool fails with the message "Source path '<source>' is within the
\* managed storage directory".
C5_AsStated ==
    [][\A p \in Pools :
          (Create(p) /\ config[p] = GetPoolMountPath(OtherPool(p)) /\ PathExists(config[p]))
             => result'[p].err =
                   Errorf("Source path '", config[p], "' is within the managed storage directory")]_vars

\* C5 amended: that Create fails with the message "Source path '<source>' is
\* within the LXD directory", and the pool is not created.
C5_ContainmentMessage ==
    [][\A p \in Pools :
          (Create(p) /\ config[p] = GetPoolMountPath(OtherPool(p)) /\ PathExists(config[p]))
             => /\ result'[p].err =
                      Errorf("Source path '", config[p], "' is within the LXD directory")
                /\ phase'[p] = "uncreated"]_vars

\* Create refused the mount path of the other pool as source
C5_Witness ==
    \E p \in Pools :
        /\ config[p] = GetPoolMountPath(OtherPool(p))
        /\ result[p].op = "Create"
        /\ result[p].err # NoError
        /\ result[p].err # ErrNotExist(config[p])

\* C6: Create of a pool defined without a source, whose mount path exists
\* and is empty, succeeds and sets the source to the pool's mount path; every
\* later Mount of that pool returns (false, nil) and mounts nothing.
C6_DefaultSource ==
    [][\A p \in Pools :
          LET path == GetPoolMountPath(p)
          IN  /\ (Create(p) /\ configured[p] = Unset /\ DirStateOf(Lookup(path)) = "empty")
                    => /\ result'[p].err = NoError
                       /\ phase'[p] = "created"
                       /\ config'[p] = path
              /\ (Mount(p) /\ configured[p] = Unset)
                    => /\ Returned(p, FALSE, NoError)
                       /\ result'[p].os = {}
                       /\ mounts' = mounts]_vars

\* a pool defined without a source was created and then mounted
C6_Witness ==
    \E p \in Pools :
        /\ configured[p] = Unset
        /\ config[p] = GetPoolMountPath(p)
        /\ phase[p] = "created"
        /\ result[p] = Result("Mount", TRUE, FALSE, NoError, {})

\* C7: Create succeeds for every source that is an existing, empty directory
\* neither equal to nor below the LXD directory, and the containment error is
\* given only for sources that are the LXD directory or lie below it.
C7_OutsideSourcesAccepted ==
    [][\A p \in Pools :
          Create(p) =>
             LET source == DefaultSource(p)
             IN  /\ (DirStateOf(Lookup(source)) = "empty" /\ ~IsUnder(Clean(source), VarDir))
                       => result'[p].err = NoError
                 /\ result'[p].err = ErrWithin(source) => IsUnder(Clean(source), VarDir)]_vars

\* C8: when the wipe of Delete fails, Delete returns the wipe error at once,
\* issues no unmount and leaves the mount table as it was, and the pool can be
\* deleted again; a Delete whose wipe succeeds goes on to the unmount.
C8_FailedWipeKeepsMount ==
    [][\A p \in Pools :
          LET path == GetPoolMountPath(p)
          IN  /\ (result'[p].op = "Delete" /\ "wipe-failed" \in result'[p].os)
                    => /\ result'[p].done
                       /\ result'[p].err = ErrWipe(path)
                       /\ result'[p].os = {"wipe-failed"}
                       /\ pc'[p] = "idle"
                       /\ phase'[p] = "created"
              /\ (Delete(p) /\ "wipe-failed" \in result'[p].os) => mounts' = mounts
              /\ (Delete(p) /\ "wipe-failed" \notin result'[p].os /\ config[p] # path)
                    => /\ pc'[p] = "Delete"
                       /\ ~result'[p].done]_vars

\* a mounted pool is still mounted after a Delete whose wipe failed
C8_Witness ==
    \E p \in Pools :
        /\ result[p] = Result("Delete", TRUE, FALSE, ErrWipe(GetPoolMountPath(p)), {"wipe-failed"})
        /\ IsMountPoint(GetPoolMountPath(p))
        /\ phase[p] = "created"

\* C9: forceUnmount issues at most MaxUnmountRetries unmounts per call; the
\* call that runs it returns either without error with the mount path no
\* mount point, or with the still-mounted error with the mount path a mount
\* point; and every Unmount, and every Delete that reached the unmount,
\* returns, also when unmounts fail or the mount path is mounted again.
C9_UnmountTerminates ==
    /\ [][\A p \in Pools :
             LET path == GetPoolMountPath(p)
             IN  /\ attempts'[p] <= MaxUnmountRetries
                 /\ (pc[p] # "idle" /\ pc'[p] = "idle")
                       => \/ /\ result'[p].err = NoError
                             /\ ~IsMountPoint(path)'
                          \/ /\ result'[p].err = ErrStillMounted(path)
                             /\ IsMountPoint(path)']_vars
    /\ \A p \in Pools : (pc[p] # "idle") ~> (pc[p] = "idle")

\* an Unmount gave up on a mount path that stayed mounted
C9_Witness ==
    \E p \in Pools :
        /\ result[p].op = "Unmount"
        /\ result[p].done
        /\ result[p].err = ErrStillMounted(GetPoolMountPath(p))
        /\ attempts[p] = MaxUnmountRetries
        /\ IsMountPoint(GetPoolMountPath(p))

\* C10: for a pool whose source differs from its mount path, Mount returns
\* true exactly when the call stacked a new bind mount of the source on the
\* mount path, returns false without mounting when the mount path is already
\* the source's directory, and the mount path never carries more than one
\* mount.
C10_MountReportsNewMount ==
    [][\A p \in Pools :
          LET path == GetPoolMountPath(p)
          IN  /\ (Mount(p) /\ config[p] # path)
                    => /\ result'[p].ret <=> mounts'[path] = Append(mounts[path], Lookup(config[p]))
                       /\ ~result'[p].ret => mounts' = mounts
                       /\ sameMount(config[p], path) => Returned(p, FALSE, NoError)
              /\ Len(mounts'[path]) <= 1]_vars

\* Mount calls on a mounted pool: the second returned false, one mount only
C10_Witness ==
    \E p \in Pools :
        /\ Clean(config[p]) # GetPoolMountPath(p)
        /\ result[p] = Result("Mount", TRUE, FALSE, NoError, {"sameMount"})
        /\ Len(mounts[GetPoolMountPath(p)]) = 1

\* what the operations of pool q read and return: its configuration and call
\* state, the mounts on its mount path, and the outcome each of its
\* operations has on the present host
PoolView(q) ==
    [ config    |-> config[q],
      phase     |-> phase[q],
      pc        |-> pc[q],
      attempts  |-> attempts[q],
      unmounted |-> unmounted[q],
      result    |-> result[q],
      mounts    |-> mounts[GetPoolMountPath(q)],
      create    |-> CreateError(q, DefaultSource(q)),
      same      |-> sameMount(config[q], GetPoolMountPath(q)),
      tryMount  |-> TryMountOutcomes(config[q], GetPoolMountPath(q)),
      content   |-> DirStateOf(Lookup(GetPoolMountPath(q))) ]

\* a step of a driver operation on pool p
DriverStep(p) ==
    Create(p) \/ Mount(p) \/ Unmount(p) \/ ForceUnmountStep(p) \/ Delete(p)

\* the directories pool p works on: its mount path and its source
PoolDirs(p) == {GetPoolMountPath(p), Clean(DefaultSource(p))}

C14_SameNormalisation ==
    [][\A p \in Pools :
          LET path == GetPoolMountPath(p)
          IN  (/\ Clean(config[p]) = path
               /\ phase[p] = "created"
               /\ pc[p] # "Delete"
               /\ Mount(p) \/ Unmount(p) \/ ForceUnmountStep(p))
                 => /\ mounts' = mounts
                    /\ result'[p].done => (~result'[p].ret /\ result'[p].err = NoError)]_vars

(***************************************************************************)
(* C12: Info, Validate and Update change nothing of the driver or the      *)
(* host in any state of a pool's life; Validate and Update return no       *)
(* error whatever they are given, and Info returns the one capability      *)
(* record: name "dir", not remote, not block-backed, the four volume types *)
(***************************************************************************)
C12_PureCalls ==
    [][reply' # reply =>
          /\ driverVars' = driverVars
          /\ reply'.err = NoError
          /\ reply'.op = "Info" =>
                /\ reply'.info.Name = "dir"
                /\ ~reply'.info.Remote
                /\ ~reply'.info.BlockBacking
                /\ reply'.info.VolumeTypes =
                      {"custom", "image", "container", "virtual-machine"}
                /\ reply'.info = DriverInfo]_vars

\* Update is called with a new source on a pool that is not created yet, while
\* the other pool has its source mounted
C12_Witness ==
    /\ reply.op = "Update"
    /\ reply.pool = OtherName
    /\ reply.arg = {<<"source", MntData>>}
    /\ phase[OtherName] = "uncreated"
    /\ config[OtherName] = Unset
    /\ IsMountPoint(GetPoolMountPath(DataName))

(***************************************************************************)
(* C15: the registry is only accessed under usbMutex: a thread that is     *)
(* past Lock() in one of the three functions holds the mutex, so no two    *)
(* threads are there together, and while a USBRunHandlers pass runs the    *)
(* map is changed by no thread but the one that runs the pass              *)
(***************************************************************************)
C15_MutualExclusion ==
    /\ [](\A t \in Threads : thread[t].pc = "locked" => usbMutex = t)
    /\ [][usbHandlers' # usbHandlers =>
             /\ \E t \in Threads :
                   /\ thread[t].pc = "locked"
                   /\ usbMutex = t
                   /\ \A u \in Threads \ {t} : thread'[u] = thread[u]
             /\ pass.running =>
                   \A u \in Threads \ {pass.owner} : thread'[u] = thread[u]]_vars

\* a pass has called a hook while the other thread waits in
\* USBRegisterHandler for the mutex
C15_Witness ==
    /\ pass.running
    /\ pass.invoked # <<>>
    /\ \E u \in Threads \ {pass.owner} :
          /\ thread[u].pc = "lock"
          /\ thread[u].op = "Register"
          /\ Handler(Key(thread[u].triple)) # thread[u].handler

(***************************************************************************)
(* C16: when a pass of USBRunHandlers returns it has called every non-nil  *)
(* handler that was registered when it began exactly once, whatever the    *)
(* order of the range and whichever hooks, instance loads or instance      *)
(* handlers failed; no hook is called twice, and DeviceEventHandler is     *)
(* called only on the instance of a key whose hook returned a run          *)
(* configuration and no error                                              *)
(***************************************************************************)
C16_EveryHandlerOnce ==
    /\ [][(pass.running /\ ~pass'.running) =>
             \A key \in DOMAIN pass.begun :
                 pass.begun[key] # HookNil => Invoked(key) = <<pass.begun[key]>>]_vars
    /\ [](\A key \in DOMAIN pass.invoked : Len(pass.invoked[key]) = 1)
    /\ [](\A e \in pass.events :
             /\ Invoked(e.key) = <<"conf">>
             /\ \E tr \in Triples :
                   Key(tr) = e.key /\ tr[1] = e.project /\ tr[2] = e.instance)

\* a pass over a failing hook and a hook with a run configuration has called
\* both, and the instance handler, which failed
C16_Witness ==
    /\ pass.running
    /\ \E k1, k2 \in DOMAIN pass.begun :
          /\ pass.begun[k1] = "err"
          /\ pass.begun[k2] = "conf"
          /\ Invoked(k1) = <<"err">>
          /\ Invoked(k2) = <<"conf">>
          /\ \E e \in pass.events : e.key = k2 /\ e.err

(***************************************************************************)
(* C17: the registry is keyed by (project, instance, device): the handler  *)
(* found under a triple's key is the one of its latest registration that   *)
(* no unregistration followed, nil if there is none; distinct triples have *)
(* distinct keys and a key splits back into its triple; unregistering a    *)
(* triple that has no entry changes nothing; and a pass only calls the     *)
(* handler that is registered for the key at that moment                   *)
(***************************************************************************)
C17_KeyedByTriple ==
    /\ [](\A tr \in Triples :
             /\ Handler(Key(tr)) = registered[tr]
             /\ SplitN(Key(tr), NUL, 3) = tr
             /\ \A other \in Triples \ {tr} : Key(other) # Key(tr))
    /\ [][/\ \A t \in Threads :
                (USBUnregisterHandler(t) /\ Key(thread[t].triple) \notin DOMAIN usbHandlers)
                   => usbHandlers' = usbHandlers
          /\ \A tr \in Triples :
                Invoked(Key(tr))' # Invoked(Key(tr)) /\ pass'.running =>
                   /\ registered[tr] # HookNil
                   /\ Invoked(Key(tr))' = <<registered[tr]>>]_vars

\* one triple has had its handler replaced and a pass has called the new one,
\* while a thread unregisters the other triple, which has no entry
C17_Witness ==
    \E tr \in Triples, t \in Threads :
        /\ registered[tr] = "conf"
        /\ pass.running
        /\ Invoked(Key(tr)) = <<"conf">>
        /\ pass.begun[Key(tr)] = "conf"
        /\ thread[t].op = "Unregister"
        /\ thread[t].triple # tr
        /\ Key(thread[t].triple) \notin DOMAIN usbHandlers

(***************************************************************************)
(* C18: every call of USBRunHandlers, USBRegisterHandler and               *)
(* USBUnregisterHandler returns, also when a hook called by the pass       *)
(* calls USBRegisterHandler itself                                         *)
(***************************************************************************)
C18_EveryCallReturns ==
    \A t \in Threads : (thread[t].pc # "idle") ~> (thread[t].pc = "idle")
====
